---- MODULE Spec2Model ----
(***************************************************************************)
(* The Translator (translator.py): the run controller of UltraTranslator   *)
(* (start_translation, translate_queue, translate_single_file,             *)
(* reset_after_cancel, final_reset), the API client translate_batch and     *)
(* the format helpers it uses, as a state machine of one foreground (Tk)    *)
(* thread and the worker threads it starts.                                *)
(***************************************************************************)
EXTENDS Integers, Sequences, FiniteSets, TLC

\* ------------------------------------------------------------------------
\* Bounds of the model
\* ------------------------------------------------------------------------
\* number of times the TRANSLATE branch of start_translation may start a run
MaxRuns == 3
\* number of file dialogs the user completes
MaxSelects == 1
\* number of runs under the fair specification
LiveRuns == 2
\* segments of a response content, and inputs of a batch
MaxSegs == 3
\* units of a list to chunk, and the batch sizes tried
MaxUnits == 7
MaxSize == 4
\* blocks of an SRT input
MaxBlocks == 2
\* items of a JSON input
MaxItems == 3
\* chunks of the file whose progress bar is followed
MaxChunks == 3
\* parts of a file path
MaxParts == 2

\* ------------------------------------------------------------------------
\* Program constants
\* ------------------------------------------------------------------------
MAX_BATCH_SIZE == 15

Runs == 1..MaxRuns

\* ------------------------------------------------------------------------
\* Texts.  A text is a tuple; the empty tuple is the empty string, and
\* <<"ws">> a whitespace-only string.
\* ------------------------------------------------------------------------
Blank == <<>>
Whitespace == <<"ws">>

\* str.strip()
Strip(t) == IF t = Whitespace THEN Blank ELSE t

\* the translation the API gives for a source text
Tr(t) == <<"tr">> \o t

\* ------------------------------------------------------------------------
\* The files on disk the user can pick
\* ------------------------------------------------------------------------
Files == {"z.srt", "a.srt", "b.json", "u.srt", "x.txt"}

\* os.path.splitext(file_path)[1].lower()
Ext(f) ==
    CASE f \in {"z.srt", "a.srt", "u.srt"} -> ".srt"
      [] f = "b.json" -> ".json"
      [] OTHER -> ".txt"

\* open("r", encoding="utf-8") / f.readlines() / f.read() succeeds
Readable(f) == f # "u.srt"

\* number of translation units the file parses to
NumUnits(f) ==
    CASE f = "a.srt" -> MAX_BATCH_SIZE + 1
      [] f = "b.json" -> 2
      [] OTHER -> 0

SrcText(f, i) == <<"src", f, i>>

\* what parse_srt(lines) returns for the lines of the file, whose blocks are
\* well formed: one dict per block
ParsedSrt(f) ==
    [i \in 1..NumUnits(f) |-> [num |-> i, time |-> <<"time", i>>, text |-> SrcText(f, i)]]

\* The content of a JSON file is a sequence of items: a pair is a stretch of
\* text the pattern "([^"]+)"\s*:\s*"([^"]*)" matches, with its key, the
\* text between the two strings (sep) and its value; any other text between
\* matches is an item of kind "text".
Pair(key, sep, value) == [kind |-> "pair", key |-> key, sep |-> sep, value |-> value]
Text(t) == [kind |-> "text", key |-> <<>>, sep |-> "", value |-> t]

\* the content of the file: "key": "value" pairs
JsonContent(f) == [i \in 1..NumUnits(f) |-> Pair(<<"key", i>>, ": ", SrcText(f, i))]

\* re.findall(pattern, content), lines 116-117
JsonMatches(content) == SelectSeq(content, LAMBDA it : it.kind = "pair")

\* lines 112-122: keys, values and the content read
ParseJson(content) ==
    LET matches == JsonMatches(content) IN
    [keys   |-> [i \in 1..Len(matches) |-> matches[i].key],
     values |-> [i \in 1..Len(matches) |-> matches[i].value],
     content |-> content]

\* parse_json_text(file_path)
parse_json_text(f) == ParseJson(JsonContent(f))

\* the lists the file dialog can return (every file is under MAX_FILE_SIZE)
Selections == {<<"z.srt", "a.srt">>, <<"x.txt", "b.json", "u.srt", "a.srt">>}

\* ------------------------------------------------------------------------
\* Pure helpers
\* ------------------------------------------------------------------------
Min(a, b) == IF a < b THEN a ELSE b

\* faulty variant of NumChunks: the last, shorter slice is left out
NumChunks_floor(n, size) == n \div size

\* range(0, len(subs), size) has this many elements
NumChunks(n, size) == (n + size - 1) \div size

\* chunk_subtitles(subs, size), and values[i:i + MAX_BATCH_SIZE]
chunk_subtitles(subs, size) ==
    [c \in 1..NumChunks(Len(subs), size) |->
        SubSeq(subs, (c - 1) * size + 1, Min(c * size, Len(subs)))]

\* save_srt(subtitles, path): the blocks written
save_srt(subtitles) ==
    [i \in 1..Len(subtitles) |->
        [num |-> subtitles[i].num, time |-> subtitles[i].time, text |-> subtitles[i].translated]]

\* A line of an SRT file is a tuple of characters, its line end left out:
\* digits, the letter "a", the space, "t" for the text of a timestamp line,
\* and "bom" for U+FEFF, which open(encoding="utf-8") leaves in the first
\* line and which is neither white space nor a digit.
Digits == {"1", "2"}

RECURSIVE LStrip(_)
LStrip(l) == IF l # <<>> /\ Head(l) = " " THEN LStrip(Tail(l)) ELSE l

RECURSIVE RStrip(_)
RStrip(l) ==
    IF l # <<>> /\ l[Len(l)] = " " THEN RStrip(SubSeq(l, 1, Len(l) - 1)) ELSE l

\* str.strip() of a line
StripLine(l) == RStrip(LStrip(l))

\* str.isdigit()
isdigit(l) == l # <<>> /\ \A i \in 1..Len(l) : l[i] \in Digits

RECURSIVE int(_)
\* int(line) of a line of digits
int(l) ==
    IF l = <<>> THEN 0
    ELSE 10 * int(SubSeq(l, 1, Len(l) - 1)) + (IF l[Len(l)] = "1" THEN 1 ELSE 2)

RECURSIVE TextEnd(_, _)
\* lines 65-67: the first position from i on that is past the end or holds
\* a blank line
TextEnd(lines, i) ==
    IF i > Len(lines) \/ StripLine(lines[i]) = <<>> THEN i
    ELSE TextEnd(lines, i + 1)

RECURSIVE ParseSrtFrom(_, _, _)
\* the while loop of parse_srt from line i (1-based) on; the text of a
\* block is kept as the tuple of its stripped lines, which "\n".join joins
ParseSrtFrom(lines, i, subtitles) ==
    IF i > Len(lines) THEN subtitles
    ELSE IF isdigit(StripLine(lines[i]))
    THEN IF i + 1 > Len(lines) THEN subtitles
         ELSE LET k == TextEnd(lines, i + 2) IN
              ParseSrtFrom(lines, k + 1,
                 Append(subtitles,
                    [num  |-> int(StripLine(lines[i])),
                     time |-> StripLine(lines[i + 1]),
                     text |-> [j \in 1..(k - i - 2) |-> StripLine(lines[i + 1 + j])]]))
    ELSE ParseSrtFrom(lines, i + 1, subtitles)

\* parse_srt(lines)
parse_srt(lines) == ParseSrtFrom(lines, 1, <<>>)

\* faulty variant of MapGet: the first pair of a key wins
MapGet_first(keys, vals, key, dflt) ==
    LET n == Min(Len(keys), Len(vals))
        hits == {i \in 1..n : keys[i] = key}
    IN  IF hits = {} THEN dflt
        ELSE vals[CHOOSE i \in hits : \A j \in hits : i <= j]

\* dict(zip(keys, translated_values)).get(key, dflt): the last pair wins
MapGet(keys, vals, key, dflt) ==
    LET n == Min(Len(keys), Len(vals))
        hits == {i \in 1..n : keys[i] = key}
    IN  IF hits = {} THEN dflt
        ELSE vals[CHOOSE i \in hits : \A j \in hits : j <= i]

\* save_json(keys, translated_values, original_content, output_path): every
\* match is rewritten as "key" : "new_value", the rest is left as it is
save_json(keys, vals, content) ==
    [i \in 1..Len(content) |->
        IF content[i].kind = "pair"
        THEN Pair(content[i].key, " : ",
                  MapGet(keys, vals, content[i].key, content[i].value))
        ELSE content[i]]

\* translate_batch, lines 192-198: split, strip, drop blank segments,
\* pad with "" and cut to len(batch)
Segments(segs, expected) ==
    LET kept == SelectSeq([i \in 1..Len(segs) |-> Strip(segs[i])], LAMBDA t : t # Blank)
        padded == IF Len(kept) < expected
                  THEN kept \o [i \in 1..(expected - Len(kept)) |-> Blank]
                  ELSE kept
    IN  SubSeq(padded, 1, expected)

\* the segments a well-formed 200 response can carry for a batch of texts:
\* one per input, or none (an empty content)
Responses(texts) == {[i \in 1..Len(texts) |-> Tr(texts[i])], <<>>}

NoResult == [ok |-> FALSE, texts |-> <<>>]


\* ------------------------------------------------------------------------
\* State
\* ------------------------------------------------------------------------
VARIABLES
    file_paths,          \* self.file_paths
    api_key,             \* self.api_key
    total_subs,          \* self.total_subs
    translated_count,    \* self.translated_count
    cancel_event,        \* self.cancel_event: the run whose Event it is, 0 for None
    cancelFlag,          \* the flag of each run's threading.Event
    btnText,             \* self.translate_btn["text"]
    btnState,            \* self.translate_btn["state"]
    progress,            \* self.progress["value"], smooth_progress(p) taken as setting p
    uiQueue,             \* callbacks posted with root.after(0, ...), in order
    thread,              \* the worker threads: position and locals of translate_queue
    outputs,             \* the output files each run has written
    finishedLines,       \* "Translation finished or canceled." lines in log_buffer
    runsStarted,         \* threads created so far
    selects,             \* file dialogs completed so far
    outcome,             \* how each run's translate_queue ended
    cancelPos,           \* where the worker was when its flag was set
    fileErr,             \* whether an exception was raised on a file of the run
    finalResets,         \* executions of final_reset posted by each run
    call,                \* a call of a format helper: its input and what it returned
    bar,                 \* self.progress["value"] as smooth_progress moves it
    timers,              \* the smooth_progress callbacks pending, in firing order
    pcount,              \* chunks of the file whose progress has been posted
    log_widget,          \* whether self.log_widget holds the Text of an open log window
    workerTouched,       \* whether a worker thread has called a method of log_widget
    startKey             \* self.api_key as it was when each run was started

\* self.file_path and self.current_file_index are written by the worker and
\* read only to word log lines; they are not part of the state.
\* cancelFlag, outcome, cancelPos and fileErr describe a run until the
\* foreground thread has run reset_after_cancel or final_reset for it, and
\* outputs until its final_reset: nothing reads them after that.

vars == <<file_paths, api_key, total_subs, translated_count, cancel_event,
          cancelFlag, btnText, btnState, progress, uiQueue, thread, outputs,
          finishedLines, runsStarted, selects, outcome, cancelPos, fileErr,
          finalResets, call, bar, timers, pcount, log_widget, workerTouched,
          startKey>>

\* the variables of the helper calls, of the progress bar animation and of
\* the log window
auxVars == <<call, bar, timers, pcount, log_widget, workerTouched>>

\* what a step of a worker leaves alone, besides what it names
userVars == <<file_paths, api_key, cancel_event, cancelFlag, btnText, btnState,
              runsStarted, selects, cancelPos, finalResets, finishedLines,
              call, bar, timers, pcount, log_widget, startKey>>

OutPaths == Files \X {"translated", "partial"}

\* no output file written
NoOutputs == [p \in OutPaths |-> [exists |-> FALSE, body |-> <<>>]]

\* a thread that has not been created
IdleThread ==
    [pc |-> "idle", paths |-> <<>>, idx |-> 0, ci |-> 0,
     attempt |-> 0, result |-> NoResult, translated |-> <<>>, sent |-> 0,
     key |-> ""]

NoCancel == [set |-> FALSE, file |-> "", done |-> 0, inflight |-> 0]

\* the positions of a worker inside translate_single_file
InFile == {"c_check", "a_check", "inflight", "merge", "f_save"}

\* where a worker is: the file translate_single_file is working on, the
\* chunks of it that have completed, and the attempt whose request is in
\* flight (0 when none is)
Position(t) ==
    IF t.pc \in InFile
    THEN [set |-> TRUE, file |-> t.paths[t.idx],
          done |-> t.ci - 1,
          inflight |-> IF t.pc = "inflight" THEN t.sent ELSE 0]
    ELSE [set |-> TRUE, file |-> "", done |-> 0, inflight |-> 0]

\* load_key(): the stored key when it has a recognized prefix, else ""
LoadableKeys == {"", "xai-1"}

\* key.startswith(("xai-", "xai_"))
HasPrefix(key) == key \in {"xai-1", "xai_2"}

\* no helper call
NoCall == [fn |-> "none", in |-> <<>>, out |-> <<>>, done |-> FALSE]

ProgramInit ==
    /\ file_paths = <<>>
    /\ api_key \in LoadableKeys
    /\ total_subs = 0
    /\ translated_count = 0
    /\ cancel_event = 0
    /\ cancelFlag = [r \in Runs |-> FALSE]
    /\ btnText = "TRANSLATE"
    /\ btnState = "disabled"
    /\ progress = 0
    /\ uiQueue = <<>>
    /\ thread = [r \in Runs |-> IdleThread]
    /\ outputs = [r \in Runs |-> NoOutputs]
    /\ finishedLines = 0
    /\ runsStarted = 0
    /\ selects = 0
    /\ outcome = [r \in Runs |-> "none"]
    /\ cancelPos = [r \in Runs |-> NoCancel]
    /\ fileErr = [r \in Runs |-> FALSE]
    /\ finalResets = [r \in Runs |-> 0]
    /\ log_widget = FALSE
    /\ workerTouched = FALSE
    /\ startKey = [r \in Runs |-> ""]

Init ==
    /\ ProgramInit
    /\ call = NoCall
    /\ bar = 0
    /\ timers = <<>>
    /\ pcount = 0

\* ------------------------------------------------------------------------
\* Foreground thread: handlers of user actions
\* ------------------------------------------------------------------------
\* faulty variant of check_ready: the key is not looked at
check_ready_nokey(paths, key) ==
    IF paths # <<>> THEN "normal" ELSE "disabled"

\* check_ready(): the state it gives the button
check_ready(paths, key) ==
    IF paths # <<>> /\ key # "" /\ HasPrefix(key) THEN "normal" ELSE "disabled"

\* the state reset_after_cancel and final_reset give the button
ResetState(paths, key) ==
    IF paths # <<>> /\ key # "" THEN "normal" ELSE "disabled"

\* the lists of the dialog and one more, a larger file before a smaller one
MoreSelections == Selections \cup {<<"a.srt", "b.json">>}

\* select_files(): the dialog returns a non-empty list of files
select_from(lists) ==
    /\ selects < MaxSelects
    /\ \E sel \in lists :
          /\ file_paths' = sel
          /\ btnState' = check_ready(sel, api_key)
    /\ selects' = selects + 1
    /\ UNCHANGED <<api_key, total_subs, translated_count, cancel_event,
                   cancelFlag, btnText, progress, uiQueue, thread, outputs,
                   finishedLines, runsStarted, outcome, cancelPos, fileErr,
                   finalResets>>
    /\ UNCHANGED auxVars
    /\ UNCHANGED startKey

select_files == select_from(Selections)

select_more_files == select_from(MoreSelections)

\* the keys the user can type into the API key window
EnteredKeys == {"sk-9", "xai-1"}

\* the keys typed when a second valid key is at hand
TypedKeys == EnteredKeys \cup {"xai_2"}

\* open_api_window() and its save(): a key with a recognized prefix is stored
\* and check_ready() runs; any other key is refused with an error box
save(keys) ==
    /\ \E key \in keys :
          /\ HasPrefix(key)
          /\ api_key' = key
          /\ btnState' = check_ready(file_paths, key)
    /\ UNCHANGED <<file_paths, total_subs, translated_count, cancel_event,
                   cancelFlag, btnText, progress, uiQueue, thread, outputs,
                   finishedLines, runsStarted, selects, outcome, cancelPos,
                   fileErr, finalResets>>
    /\ UNCHANGED auxVars
    /\ UNCHANGED startKey

save_key == save(EnteredKeys)

save_typed_key == save(TypedKeys)

\* show_log_window(), lines 492-534, and on_close, 561-570: "Show More"
\* opens the log window and sets log_widget, "Hide", Escape or closing the
\* window destroys it and sets log_widget = None
show_log_window ==
    /\ log_widget' = ~log_widget
    /\ UNCHANGED <<file_paths, api_key, total_subs, translated_count,
                   cancel_event, cancelFlag, btnText, btnState, progress,
                   uiQueue, thread, outputs, finishedLines, runsStarted,
                   selects, outcome, cancelPos, fileErr, finalResets>>
    /\ UNCHANGED <<call, bar, timers, pcount, workerTouched, startKey>>

\* start_translation(), TRANSLATE branch: a click on the enabled button
start_translation_start ==
    /\ btnState = "normal"
    /\ btnText = "TRANSLATE"
    /\ file_paths # <<>>
    /\ runsStarted < MaxRuns
    /\ LET r == runsStarted + 1 IN
          /\ btnText' = "CANCEL"
          /\ progress' = 0
          /\ translated_count' = 0
          /\ total_subs' = 0
          /\ cancel_event' = r
          /\ thread' = [thread EXCEPT ![r].pc = "start"]
          /\ runsStarted' = r
          /\ startKey' = [startKey EXCEPT ![r] = api_key]
    /\ UNCHANGED <<file_paths, api_key, cancelFlag, btnState, uiQueue, outputs,
                   finishedLines, selects, outcome, cancelPos, fileErr,
                   finalResets>>
    /\ UNCHANGED auxVars

\* start_translation(), cancel branch: a click while the button reads
\* anything but TRANSLATE
start_translation_cancel ==
    /\ btnState = "normal"
    /\ btnText # "TRANSLATE"
    /\ IF cancel_event # 0
       THEN /\ cancelFlag' = [cancelFlag EXCEPT ![cancel_event] = TRUE]
            /\ cancelPos' =
                 IF cancelFlag[cancel_event] THEN cancelPos
                 ELSE [cancelPos EXCEPT ![cancel_event] =
                         Position(thread[cancel_event])]
       ELSE UNCHANGED <<cancelFlag, cancelPos>>
    /\ btnState' = "disabled"
    /\ btnText' = "CANCELING..."
    /\ UNCHANGED <<file_paths, api_key, total_subs, translated_count,
                   cancel_event, progress, uiQueue, thread, outputs,
                   finishedLines, runsStarted, selects, outcome, fileErr,
                   finalResets>>
    /\ UNCHANGED auxVars
    /\ UNCHANGED startKey


\* ------------------------------------------------------------------------
\* Worker thread: translate_queue
\* ------------------------------------------------------------------------
\* root.after(0, callback)
Post(cb) == uiQueue' = Append(uiQueue, cb)

\* self.log(msg, level), lines 462-490, called by a worker thread when
\* called holds: with the log window open it calls winfo_exists, insert,
\* tag_add, tag_config and see of the Text widget (477-488)
log(called) == workerTouched' = (workerTouched \/ (called /\ log_widget))

Callback(fn, r, data, path) == [fn |-> fn, run |-> r, data |-> data, path |-> path]

\* the thread starts running translate_queue: enumerate(self.file_paths)
\* takes the list the attribute holds now
translate_queue_enter(r) ==
    /\ thread[r].pc = "start"
    /\ thread' = [thread EXCEPT ![r].pc = "q_loop", ![r].paths = file_paths,
                                ![r].idx = 1]
    /\ UNCHANGED <<total_subs, translated_count, progress, uiQueue, outputs,
                   outcome, fileErr>>
    /\ log(FALSE)
    /\ UNCHANGED userVars

\* faulty variant of translate_queue_next: the loop without the cancel check
\* of lines 614-616
translate_queue_next_unchecked(r) ==
    LET t == thread[r] IN
    /\ t.pc = "q_loop"
    /\ IF t.idx > Len(t.paths)
       THEN /\ Post(Callback("showinfo_done", r, <<>>, ""))
            /\ outcome' = [outcome EXCEPT ![r] = "Completed"]
            /\ thread' = [thread EXCEPT ![r].pc = "q_finally"]
       ELSE /\ thread' = [thread EXCEPT ![r].pc = "q_parse"]
            /\ UNCHANGED <<uiQueue, outcome>>
    /\ UNCHANGED <<total_subs, translated_count, progress, outputs, fileErr>>
    /\ log(thread'[r].pc = "q_parse")
    /\ UNCHANGED userVars

\* lines 613-620 and 646: the end of the for loop, or its next file and the
\* cancel check
translate_queue_next(r) ==
    LET t == thread[r] IN
    /\ t.pc = "q_loop"
    /\ IF t.idx > Len(t.paths)
       THEN /\ Post(Callback("showinfo_done", r, <<>>, ""))
            /\ outcome' = [outcome EXCEPT ![r] = "Completed"]
            /\ thread' = [thread EXCEPT ![r].pc = "q_finally"]
       ELSE IF cancelFlag[r]
       THEN /\ Post(Callback("reset_after_cancel", r, <<>>, t.paths[t.idx]))
            /\ outcome' = [outcome EXCEPT ![r] = "Canceled"]
            /\ thread' = [thread EXCEPT ![r].pc = "q_finally"]
       ELSE /\ thread' = [thread EXCEPT ![r].pc = "q_parse"]
            /\ UNCHANGED <<uiQueue, outcome>>
    /\ UNCHANGED <<total_subs, translated_count, progress, outputs, fileErr>>
    /\ log(thread'[r].pc = "q_parse")
    /\ UNCHANGED userVars

\* lines 623-633: read and parse the file to count its units; an exception
\* of open/readlines/read goes to the except of translate_queue (648-649)
translate_queue_parse(r) ==
    LET t == thread[r]
        f == t.paths[t.idx]
    IN
    /\ t.pc = "q_parse"
    /\ IF Ext(f) \notin {".srt", ".json"}
       THEN /\ thread' = [thread EXCEPT ![r].pc = "q_loop", ![r].idx = t.idx + 1]
            /\ UNCHANGED <<total_subs, outcome, fileErr>>
       ELSE IF ~Readable(f)
       THEN /\ thread' = [thread EXCEPT ![r].pc = "q_finally"]
            /\ outcome' = [outcome EXCEPT ![r] = "Failed"]
            /\ fileErr' = [fileErr EXCEPT ![r] = TRUE]
            /\ UNCHANGED total_subs
       ELSE /\ total_subs' = IF Ext(f) = ".srt" THEN Len(ParsedSrt(f))
                                                ELSE Len(parse_json_text(f).values)
            /\ thread' = [thread EXCEPT ![r].pc = "q_zero"]
            /\ UNCHANGED <<outcome, fileErr>>
    /\ UNCHANGED <<translated_count, progress, uiQueue, outputs>>
    /\ log(thread'[r].pc = "q_finally")
    /\ UNCHANGED userVars

\* the locals of translate_single_file are dead once it returns
ClearFile(t) ==
    [t EXCEPT !.ci = 0, !.attempt = 0, !.result = NoResult,
              !.translated = <<>>, !.sent = 0, !.key = ""]

\* translate_single_file returns (True, or False with "Failed: ..." logged at
\* 643-644) and the for loop of translate_queue goes on
Return(t) == [ClearFile(t) EXCEPT !.pc = "q_loop", !.idx = t.idx + 1]

\* the units of the file being translated: the subs of an SRT file, the
\* values of a JSON file
UnitsOf(f) == IF Ext(f) = ".srt" THEN ParsedSrt(f) ELSE parse_json_text(f).values

\* chunks, lines 664 and 706
ChunksOf(f) == chunk_subtitles(UnitsOf(f), MAX_BATCH_SIZE)

\* the texts sent for a chunk, lines 676 and 718
BatchTexts(f, chunk) ==
    IF Ext(f) = ".srt" THEN [j \in 1..Len(chunk) |-> chunk[j].text] ELSE chunk

\* "for chunk in chunks": the loop body for chunk ci, or the code after the loop
ChunkLoop(t, f, ci) ==
    IF ci > Len(ChunksOf(f)) THEN [t EXCEPT !.pc = "f_save", !.ci = ci]
    ELSE [t EXCEPT !.pc = "c_check", !.ci = ci]

\* lines 635-642 and 658-665 / 701-707: skip a file without text, else reset
\* the counter and enter translate_single_file, which parses and chunks
translate_queue_zero(r) ==
    LET t == thread[r]
        f == t.paths[t.idx]
    IN
    /\ t.pc = "q_zero"
    /\ IF total_subs = 0
       THEN /\ thread' = [thread EXCEPT ![r].pc = "q_loop", ![r].idx = t.idx + 1]
            /\ UNCHANGED translated_count
       ELSE /\ translated_count' = 0
            /\ thread' = [thread EXCEPT ![r] =
                  IF Ext(f) = ".json" /\ Len(parse_json_text(f).values) = 0
                  THEN Return(t)
                  ELSE ChunkLoop([t EXCEPT !.translated = <<>>], f, 1)]
    /\ UNCHANGED <<total_subs, progress, uiQueue, outputs, outcome, fileErr>>
    /\ log(total_subs = 0)
    /\ UNCHANGED userVars

\* faulty variant of translate_queue_finally: the thread ends without
\* posting final_reset
translate_queue_finally_lost(r) ==
    /\ thread[r].pc = "q_finally"
    /\ thread' = [thread EXCEPT ![r] = [IdleThread EXCEPT !.pc = "done"]]
    /\ UNCHANGED <<total_subs, translated_count, progress, uiQueue, outputs,
                   outcome, fileErr>>
    /\ log(FALSE)
    /\ UNCHANGED userVars

\* line 651: finally
translate_queue_finally(r) ==
    /\ thread[r].pc = "q_finally"
    /\ Post(Callback("final_reset", r, <<>>, ""))
    /\ thread' = [thread EXCEPT ![r] = [IdleThread EXCEPT !.pc = "done"]]
    /\ UNCHANGED <<total_subs, translated_count, progress, outputs, outcome,
                   fileErr>>
    /\ log(FALSE)
    /\ UNCHANGED userVars

\* ------------------------------------------------------------------------
\* Worker thread: translate_single_file and translate_batch
\* ------------------------------------------------------------------------
\* lines 668-671 / 710-713: the cancel check of a chunk
translate_single_file_chunk(r) ==
    LET t == thread[r] IN
    /\ t.pc = "c_check"
    /\ thread' = [thread EXCEPT ![r] =
          IF cancelFlag[r] THEN Return(t)
          ELSE [t EXCEPT !.pc = "a_check", !.attempt = 0, !.result = NoResult,
                         !.sent = 0]]
    /\ UNCHANGED <<total_subs, translated_count, progress, uiQueue, outputs,
                   outcome, fileErr>>
    /\ log(cancelFlag[r])
    /\ UNCHANGED userVars

\* lines 673-675 / 715-717 and 162-174: the cancel check of an attempt, then
\* translate_batch sends the request
translate_single_file_attempt(r) ==
    LET t == thread[r] IN
    /\ t.pc = "a_check"
    /\ thread' = [thread EXCEPT ![r] =
          IF cancelFlag[r] THEN Return(t)
          ELSE [t EXCEPT !.pc = "inflight", !.sent = t.sent + 1,
                         !.key = api_key]]
    /\ UNCHANGED <<total_subs, translated_count, progress, uiQueue, outputs,
                   outcome, fileErr>>
    /\ log(cancelFlag[r])
    /\ UNCHANGED userVars

\* translate_batch(batch, lang, api_key, cancel_event), lines 176-205: the
\* pair it returns when the round trip ends with kind (a timeout, a network
\* error, a status code) and, for a 200 with the expected structure, the
\* segments of the content.  raised is the exception that leaves it instead.
translate_batch(texts, canceled, kind, segs) ==
    LET ret(res, err) == [result |-> res, error |-> err, raised |-> ""] IN
    CASE kind = "timeout" -> ret(NoResult, "Timeout (30s)")
      [] kind = "network" ->
            IF canceled THEN ret(NoResult, "Canceled")
            ELSE ret(NoResult, "Error: ...")
      [] canceled -> ret(NoResult, "Canceled")
      [] kind = "401" -> ret(NoResult, "Invalid API key!")
      [] kind = "429" -> ret(NoResult, "Rate limit!")
      [] kind = "402" -> ret(NoResult, "No credits!")
      [] kind = "http_error" -> ret(NoResult, "Error: ...")
      [] kind = "malformed" -> [result |-> NoResult, error |-> "", raised |-> "KeyError"]
      [] OTHER -> ret([ok |-> TRUE, texts |-> Segments(segs, Len(texts))], "")

\* what can come back from requests.post
ResponseKinds == {"timeout", "network", "401", "429", "402", "http_error",
                  "malformed", "200"}

\* "for attempt in range(2)"
Attempts == 2

\* faulty variant of AfterAttempt: the attempt loop without the break of
\* lines 681-682
AfterAttempt_NoBreak(t, result) ==
    IF t.attempt + 1 < Attempts
    THEN [t EXCEPT !.pc = "a_check", !.attempt = t.attempt + 1, !.result = result]
    ELSE [t EXCEPT !.pc = "merge", !.result = result]

\* lines 681-684 / 723-726: break on a result, else log "Retry", sleep and
\* go on with the next attempt, if any
AfterAttempt(t, result) ==
    IF result.ok THEN [t EXCEPT !.pc = "merge", !.result = result]
    ELSE IF t.attempt + 1 < Attempts
    THEN [t EXCEPT !.pc = "a_check", !.attempt = t.attempt + 1, !.result = result]
    ELSE [t EXCEPT !.pc = "merge", !.result = result]

\* lines 675-684 / 717-726: the round trip ends and translate_batch returns,
\* or raises into the except of translate_single_file (742-744), which
\* returns False.  The error of the pair is never read.
translate_batch_return(r) ==
    LET t == thread[r]
        f == t.paths[t.idx]
        texts == BatchTexts(f, ChunksOf(f)[t.ci])
    IN
    /\ t.pc = "inflight"
    /\ \E kind \in ResponseKinds :
         \E segs \in (IF kind = "200" THEN Responses(texts) ELSE {<<>>}) :
            LET pair == translate_batch(texts, cancelFlag[r], kind, segs) IN
            /\ thread' = [thread EXCEPT ![r] =
                  IF pair.raised # "" THEN Return(t)
                  ELSE AfterAttempt([t EXCEPT !.key = ""], pair.result)]
            /\ fileErr' = [fileErr EXCEPT ![r] = @ \/ pair.raised # ""]
    /\ UNCHANGED <<total_subs, translated_count, progress, uiQueue, outputs,
                   outcome>>
    /\ log(~(thread'[r].pc = "merge" /\ thread'[r].result.ok))
    /\ UNCHANGED userVars

\* lines 685-690: the translated entries of an SRT chunk
MergeSrt(chunk, result) ==
    LET res == IF result.ok THEN result.texts
               ELSE [j \in 1..Len(chunk) |-> chunk[j].text]
    IN  [j \in 1..Len(chunk) |->
            [num |-> chunk[j].num, time |-> chunk[j].time,
             translated |-> IF Strip(res[j]) # Blank THEN Strip(res[j])
                            ELSE chunk[j].text]]

\* lines 727-730: the translated values of a JSON chunk
MergeJson(chunk, result) == IF result.ok THEN result.texts ELSE chunk

\* lines 685-695 / 727-734: fallback, merge, count, percent, and on to the
\* next chunk; a division by a zero total_subs raises into the except of
\* translate_single_file
translate_single_file_merge(r) ==
    LET t == thread[r]
        f == t.paths[t.idx]
        chunk == ChunksOf(f)[t.ci]
        merged == IF Ext(f) = ".srt" THEN MergeSrt(chunk, t.result)
                                     ELSE MergeJson(chunk, t.result)
    IN
    /\ t.pc = "merge"
    /\ translated_count' = translated_count + Len(chunk)
    /\ IF total_subs = 0
       THEN /\ thread' = [thread EXCEPT ![r] = Return(t)]
            /\ fileErr' = [fileErr EXCEPT ![r] = TRUE]
            /\ UNCHANGED progress
       ELSE /\ progress' = (translated_count' * 100) \div total_subs
            /\ thread' = [thread EXCEPT ![r] =
                  ChunkLoop([t EXCEPT !.translated = t.translated \o merged,
                                      !.result = NoResult, !.attempt = 0,
                                      !.sent = 0],
                            f, t.ci + 1)]
            /\ UNCHANGED fileErr
    /\ UNCHANGED <<total_subs, uiQueue, outputs, outcome>>
    /\ log(TRUE)
    /\ UNCHANGED userVars

\* what translate_single_file writes to the output file, lines 698 and 737
OutputBody(f, translated) ==
    IF Ext(f) = ".srt" THEN save_srt(translated)
    ELSE save_json(parse_json_text(f).keys, translated, parse_json_text(f).content)

\* lines 697-699 / 736-740: write the output file and return True; an
\* exception of the write goes to the except at 742-744
translate_single_file_save(r) ==
    LET t == thread[r]
        f == t.paths[t.idx]
    IN
    /\ t.pc = "f_save"
    /\ \E written \in BOOLEAN :
          IF written
          THEN /\ outputs' = [outputs EXCEPT ![r][<<f, "translated">>] =
                     [exists |-> TRUE, body |-> OutputBody(f, t.translated)]]
               /\ UNCHANGED fileErr
          ELSE /\ fileErr' = [fileErr EXCEPT ![r] = TRUE]
               /\ UNCHANGED outputs
    /\ thread' = [thread EXCEPT ![r] = Return(t)]
    /\ UNCHANGED <<total_subs, translated_count, progress, uiQueue, outcome>>
    /\ log(TRUE)
    /\ UNCHANGED userVars


\* ------------------------------------------------------------------------
\* Foreground thread: the callbacks the worker posts
\* ------------------------------------------------------------------------
\* reset_after_cancel(translated_data, msg, current_file_path), lines 746-777;
\* current_file_path is never empty, so self.file_path is not read
reset_after_cancel(cb) ==
    LET f == cb.path IN
    /\ IF cb.data # <<>> /\ Ext(f) = ".srt"
       THEN outputs' = [outputs EXCEPT ![cb.run][<<f, "partial">>] =
                          [exists |-> TRUE, body |-> save_srt(cb.data)]]
       ELSE IF cb.data # <<>> /\ Ext(f) = ".json"
       THEN outputs' = [outputs EXCEPT ![cb.run][<<f, "partial">>] =
                          [exists |-> TRUE,
                           body |-> save_json([i \in 1..Len(cb.data) |-> cb.data[i][1]],
                                              [i \in 1..Len(cb.data) |-> cb.data[i][2]],
                                              parse_json_text(f).content)]]
       ELSE UNCHANGED outputs
    /\ btnText' = "TRANSLATE"
    /\ btnState' = ResetState(file_paths, api_key)
    /\ cancelFlag' = [cancelFlag EXCEPT ![cb.run] = FALSE]
    /\ outcome' = [outcome EXCEPT ![cb.run] = "none"]
    /\ cancelPos' = [cancelPos EXCEPT ![cb.run] = NoCancel]
    /\ fileErr' = [fileErr EXCEPT ![cb.run] = FALSE]
    /\ UNCHANGED <<progress, finishedLines, finalResets, startKey>>

\* final_reset(), lines 801-812
final_reset(cb) ==
    /\ progress' = 100
    /\ btnText' = "TRANSLATE"
    /\ btnState' = ResetState(file_paths, api_key)
    /\ finishedLines' = finishedLines + 1
    /\ finalResets' = [finalResets EXCEPT ![cb.run] = @ + 1]
    /\ cancelFlag' = [cancelFlag EXCEPT ![cb.run] = FALSE]
    /\ outcome' = [outcome EXCEPT ![cb.run] = "none"]
    /\ cancelPos' = [cancelPos EXCEPT ![cb.run] = NoCancel]
    /\ fileErr' = [fileErr EXCEPT ![cb.run] = FALSE]
    /\ outputs' = [outputs EXCEPT ![cb.run] = NoOutputs]
    /\ startKey' = [startKey EXCEPT ![cb.run] = ""]

\* messagebox.showinfo("Done", "All files processed!"), line 646
showinfo_done(cb) ==
    UNCHANGED <<btnText, btnState, progress, finishedLines, finalResets,
                outputs, outcome, cancelPos, fileErr, cancelFlag, startKey>>

\* the Tk main loop runs the oldest callback posted
RunCallback ==
    /\ uiQueue # <<>>
    /\ LET cb == Head(uiQueue) IN
          CASE cb.fn = "reset_after_cancel" -> reset_after_cancel(cb)
            [] cb.fn = "final_reset" -> final_reset(cb)
            [] OTHER -> showinfo_done(cb)
    /\ uiQueue' = Tail(uiQueue)
    /\ UNCHANGED <<file_paths, api_key, total_subs, translated_count,
                   cancel_event, thread, runsStarted, selects>>
    /\ UNCHANGED auxVars

\* ------------------------------------------------------------------------
\* Specification
\* ------------------------------------------------------------------------
WorkerStep(r) ==
    \/ translate_queue_enter(r)
    \/ translate_queue_next(r)
    \/ translate_queue_parse(r)
    \/ translate_queue_zero(r)
    \/ translate_single_file_chunk(r)
    \/ translate_single_file_attempt(r)
    \/ translate_batch_return(r)
    \/ translate_single_file_merge(r)
    \/ translate_single_file_save(r)
    \/ translate_queue_finally(r)

Worker == \E r \in Runs : WorkerStep(r)

Next ==
    \/ select_files
    \/ save_key
    \/ start_translation_start
    \/ start_translation_cancel
    \/ RunCallback
    \/ Worker

Spec == Init /\ [][Next]_vars

\* start_translation(), TRANSLATE branch, for at most LiveRuns runs
start_translation_live ==
    /\ runsStarted < LiveRuns
    /\ start_translation_start

LiveNext ==
    \/ select_files
    \/ save_key
    \/ start_translation_live
    \/ start_translation_cancel
    \/ RunCallback
    \/ Worker

\* the program with the log window, with a second valid key to save and
\* with one more list of files to select
SessionNext ==
    \/ select_more_files
    \/ save_typed_key
    \/ show_log_window
    \/ start_translation_live
    \/ start_translation_cancel
    \/ RunCallback
    \/ Worker

SessionSpec == Init /\ [][SessionNext]_vars

\* the scheduler runs every started thread, every request returns, and the
\* Tk main loop runs every callback posted
LiveSpec ==
    /\ Init
    /\ [][LiveNext]_vars
    /\ \A r \in Runs : WF_vars(WorkerStep(r))
    /\ WF_vars(RunCallback)

\* ------------------------------------------------------------------------
\* The format helpers and the response splitting, called on their inputs
\* ------------------------------------------------------------------------
\* the attributes of UltraTranslator
programVars == <<file_paths, api_key, total_subs, translated_count, cancel_event,
                 cancelFlag, btnText, btnState, progress, uiQueue, thread,
                 outputs, finishedLines, runsStarted, selects, outcome,
                 cancelPos, fileErr, finalResets, log_widget, workerTouched,
                 startKey>>

SeqsUpTo(S, n) == UNION {[1..k -> S] : k \in 0..n}

\* the segments content.split("\n\n") gives for a content that was stripped:
\* at least one, and the first and the last not blank unless it is the only
\* one
SegmentTexts == {<<"x">>, <<"y">>, Blank, Whitespace}

SegmentInputs ==
    {[segs |-> q, expected |-> e] :
        q \in {q \in SeqsUpTo(SegmentTexts, MaxSegs) :
                 /\ Len(q) >= 1
                 /\ Len(q) > 1 => (Strip(q[1]) # Blank /\ Strip(q[Len(q)]) # Blank)},
        e \in 1..MaxSegs}

\* a list of n units and a batch size
ChunkInputs == {[n |-> n, size |-> b] : n \in 0..MaxUnits, b \in 1..MaxSize}

\* the blocks of an SRT input: a well-formed block ("ok") is an index line,
\* a timestamp line, text lines and a blank line; a block "no_index" lacks
\* the index line, a block "no_time" the timestamp line
IndexLines == {<<"1">>, <<"1", "2", " ">>}
TimeLine == <<"t">>
TextLines == {<<"a">>, <<"2">>}
\* the text of a block: no line, one line, or two lines
BlockTexts == {<<>>} \cup {<<l>> : l \in TextLines} \cup {<< <<"a">>, <<"2">> >>}

SrtBlocks(kinds) ==
    {[kind |-> k, index |-> n, text |-> t] :
        k \in kinds, n \in IndexLines, t \in BlockTexts}

BlockLines(b) ==
    (IF b.kind = "no_index" THEN <<>> ELSE <<b.index>>)
    \o (IF b.kind = "no_time" THEN <<>> ELSE <<TimeLine>>)
    \o b.text \o << <<>> >>

RECURSIVE Render(_)
\* f.readlines() of the file that holds the blocks
Render(blocks) ==
    IF blocks = <<>> THEN <<>> ELSE BlockLines(Head(blocks)) \o Render(Tail(blocks))

\* the lines of a file that starts with a byte order mark
WithBom(lines) ==
    IF lines = <<>> THEN lines ELSE <<(<<"bom">> \o Head(lines))>> \o Tail(lines)

ReadLines(in) == IF in.bom THEN WithBom(Render(in.blocks)) ELSE Render(in.blocks)

RoundTripInputs ==
    {[blocks |-> bs, bom |-> m] :
        bs \in SeqsUpTo(SrtBlocks({"ok"}), MaxBlocks), m \in BOOLEAN}

ParseInputs ==
    {[blocks |-> bs, bom |-> FALSE] :
        bs \in SeqsUpTo(SrtBlocks({"ok", "no_index", "no_time"}), MaxBlocks)}

\* the items of a JSON input
JsonItems ==
    {Pair(k, sp, v) : k \in {<<"key", 1>>, <<"key", 2>>}, sp \in {" : ", ":"},
                      v \in {<<"v", 1>>, <<"v", 2>>}}
    \cup {Text(<<"{">>)}

JsonInputs == SeqsUpTo(JsonItems, MaxItems)

\* the translated value of the i-th value parsed
Translated(i) == <<"tr", i>>

\* a JSON content and the number of translated values at hand for it
TranslatedInputs ==
    {x \in [content : JsonInputs, n : 0..MaxItems] :
        x.n <= Len(JsonMatches(x.content))}

\* A file path is a tuple of parts: "m" for text without a dot, and the
\* extensions as they can be written
PathParts == {"m", ".srt", ".SRT", ".json", ".JSON"}

\* str.lower() of a part
lower(part) ==
    CASE part = ".SRT" -> ".srt"
      [] part = ".JSON" -> ".json"
      [] OTHER -> part

\* os.path.splitext(file_path)[1]: the last part when it starts with a dot
\* and is not the whole name
splitext(path) ==
    IF Len(path) > 1 /\ path[Len(path)] # "m" THEN path[Len(path)] ELSE ""

RECURSIVE replace(_, _, _)
\* str.replace(old, new): every occurrence of the part old gives way to the
\* parts new
replace(path, old, new) ==
    IF path = <<>> THEN <<>>
    ELSE (IF Head(path) = old THEN new ELSE <<Head(path)>>)
         \o replace(Tail(path), old, new)

\* lines 659-660, 697 and 701, 736: the path translate_single_file writes
\* to, for the language chosen; none for a file it does not translate
out_path(file_path) ==
    LET ext == lower(splitext(file_path)) IN
    IF ext = ".srt" THEN replace(file_path, ".srt", <<"_translated_lang", ".srt">>)
    ELSE IF ext = ".json"
    THEN replace(file_path, ".json", <<"_translated_lang", ".json">>)
    ELSE <<>>

PathInputs == SeqsUpTo(PathParts, MaxParts) \ {<<>>}

Calls(fn, inputs) == {[fn |-> fn, in |-> x, out |-> <<>>, done |-> FALSE] : x \in inputs}

HelperInit ==
    /\ ProgramInit
    /\ bar = 0
    /\ timers = <<>>
    /\ pcount = 0
    /\ \/ call \in Calls("translate_batch", SegmentInputs)
       \/ call \in Calls("chunk_subtitles", ChunkInputs)
       \/ call \in Calls("srt_round_trip", RoundTripInputs)
       \/ call \in Calls("parse_srt", ParseInputs)
       \/ call \in Calls("save_json", JsonInputs)
       \/ call \in Calls("save_json_translated", TranslatedInputs)
       \/ call \in Calls("out_path", PathInputs)

Returns(fn, out) ==
    /\ call.fn = fn
    /\ ~call.done
    /\ call' = [call EXCEPT !.out = out, !.done = TRUE]
    /\ UNCHANGED <<programVars, bar, timers, pcount>>

\* translate_batch on a 200 response whose content splits into call.in.segs
call_translate_batch ==
    Returns("translate_batch",
            translate_batch([i \in 1..call.in.expected |-> <<"src", i>>], FALSE,
                            "200", call.in.segs).result.texts)

\* chunk_subtitles(subs, size), and the slices of line 706
call_chunk_subtitles ==
    Returns("chunk_subtitles",
            chunk_subtitles([i \in 1..call.in.n |-> i], call.in.size))

\* the source text of every unit taken as its translation
Untranslated(subs) ==
    [i \in 1..Len(subs) |->
        [num |-> subs[i].num, time |-> subs[i].time, translated |-> subs[i].text]]

\* parse_srt, then save_srt with every unit's own text
call_srt_round_trip ==
    Returns("srt_round_trip", save_srt(Untranslated(parse_srt(ReadLines(call.in)))))

\* parse_srt(lines)
call_parse_srt == Returns("parse_srt", parse_srt(ReadLines(call.in)))

\* parse_json_text, then save_json with the values parsed
call_save_json ==
    LET p == ParseJson(call.in) IN
    Returns("save_json", save_json(p.keys, p.values, p.content))

\* parse_json_text, then save_json with translated values for the first
\* call.in.n values
call_save_json_translated ==
    LET p == ParseJson(call.in.content) IN
    Returns("save_json_translated",
            save_json(p.keys, [i \in 1..call.in.n |-> Translated(i)], p.content))

\* the output path of translate_single_file for a file path
call_out_path == Returns("out_path", out_path(call.in))

HelperNext ==
    \/ call_translate_batch
    \/ call_chunk_subtitles
    \/ call_srt_round_trip
    \/ call_parse_srt
    \/ call_save_json
    \/ call_save_json_translated
    \/ call_out_path

HelperSpec == HelperInit /\ [][HelperNext]_vars

\* ------------------------------------------------------------------------
\* The progress bar while one file of MaxChunks full chunks is translated:
\* the worker posts smooth_progress(percent) after every chunk, and every
\* smooth_progress re-posts itself until the bar has reached its target
\* ------------------------------------------------------------------------
\* lines 692-693: percent once k chunks of the file are done
Percent(k) == (k * MAX_BATCH_SIZE * 100) \div (MaxChunks * MAX_BATCH_SIZE)

\* the sequence q with x put in before position k
InsertAt(q, k, x) == SubSeq(q, 1, k - 1) \o <<x>> \o SubSeq(q, k, Len(q))

\* a pending callback: the target it carries and the delay it was posted with
Timer(target, ms) == [target |-> target, ms |-> ms]

\* line 694: root.after(0, lambda p=percent: self.smooth_progress(p)); the
\* callback is due at once: it fires after the callbacks posted with delay
\* 0 before it, and before or after a pending callback posted with delay 40
\* according to whether that one is due yet
post_smooth_progress ==
    /\ pcount < MaxChunks
    /\ pcount' = pcount + 1
    /\ \E k \in 1..(Len(timers) + 1) :
          /\ \A j \in k..Len(timers) : timers[j].ms = 40
          /\ timers' = InsertAt(timers, k, Timer(Percent(pcount + 1), 0))
    /\ UNCHANGED <<programVars, call, bar>>

\* smooth_progress(target_percent), lines 786-799, run for the callback that
\* is due first; root.after(40, ...) is due after all that are pending
smooth_progress ==
    /\ timers # <<>>
    /\ LET target_percent == Head(timers).target
           step == IF (target_percent - bar) \div 8 > 1
                   THEN (target_percent - bar) \div 8 ELSE 1
       IN  IF bar >= target_percent
           THEN /\ bar' = target_percent
                /\ timers' = Tail(timers)
           ELSE /\ bar' = bar + step
                /\ timers' = IF bar + step < target_percent
                              THEN Append(Tail(timers),
                                          Timer(target_percent, 40))
                              ELSE Tail(timers)
    /\ UNCHANGED <<programVars, call, pcount>>

ProgressNext ==
    \/ post_smooth_progress
    \/ smooth_progress

ProgressSpec == Init /\ [][ProgressNext]_vars

TypeOK ==
    /\ btnText \in {"TRANSLATE", "CANCEL", "CANCELING..."}
    /\ btnState \in {"normal", "disabled"}
    /\ cancel_event \in 0..MaxRuns
    /\ runsStarted \in 0..MaxRuns
    /\ \A r \in Runs : outcome[r] \in {"none", "Completed", "Canceled", "Failed"}
    /\ log_widget \in BOOLEAN
    /\ workerTouched \in BOOLEAN
    /\ \A r \in Runs : startKey[r] \in {""} \cup TypedKeys


\* ------------------------------------------------------------------------
\* Properties
\* ------------------------------------------------------------------------
\* the foreground thread runs callback fn of run r in this step
CallbackRuns(fn, r) ==
    /\ uiQueue # <<>>
    /\ Head(uiQueue).fn = fn
    /\ Head(uiQueue).run = r
    /\ uiQueue' = Tail(uiQueue)

\* the units of the first k chunks of file f
UnitsInChunks(f, k) == Min(k * MAX_BATCH_SIZE, NumUnits(f))

\* the text a written body carries for its i-th unit
BodyText(f, body, i) == IF Ext(f) = ".srt" THEN body[i].text ELSE body[i].value

\* the text the list of translate_single_file carries for its i-th unit
ListText(f, translated, i) ==
    IF Ext(f) = ".srt" THEN translated[i].translated ELSE translated[i]

\* the source text of the j-th unit of a chunk
ChunkSource(f, chunk, j) == IF Ext(f) = ".srt" THEN chunk[j].text ELSE chunk[j]

\* C1: when cancel is signaled while a file is being translated and k of
\* its chunks have completed, the run has written the partial output file of
\* that file once its reset_after_cancel has run, and an SRT partial file
\* holds exactly the units of those k chunks.
C1_PartialSavedOnCancel ==
    [][\A r \in Runs :
         (CallbackRuns("reset_after_cancel", r) /\ cancelPos[r].file # "") =>
            LET f == cancelPos[r].file
                out == outputs'[r][<<f, "partial">>]
            IN  /\ out.exists
                /\ Ext(f) = ".srt" =>
                      Len(out.body) = UnitsInChunks(f, cancelPos[r].done)]_vars

\* C2: when both attempts for a chunk returned no result, every unit of the
\* chunk gets its own source text, the chunk is counted, and the worker goes
\* on with the next chunk (or the code after the last one) of the same file.
C2_FallbackOnDoubleFailure ==
    [][\A r \in Runs :
         LET t == thread[r]
             f == t.paths[t.idx]
             chunk == ChunksOf(f)[t.ci]
             n == Len(t.translated)
         IN
         (t.pc = "merge" /\ ~t.result.ok /\ thread'[r] # t) =>
            /\ t.sent = Attempts
            /\ translated_count' = translated_count + Len(chunk)
            /\ thread'[r].pc \in {"c_check", "f_save"}
            /\ thread'[r].idx = t.idx
            /\ thread'[r].ci = t.ci + 1
            /\ Len(thread'[r].translated) = n + Len(chunk)
            /\ \A j \in 1..Len(chunk) :
                  ListText(f, thread'[r].translated, n + j) = ChunkSource(f, chunk, j)
            /\ outcome'[r] = "none"]_vars

\* C3: translate_batch is called at most twice for a chunk, and a second
\* time only if the first call returned no result.
C3_AtMostTwoAttempts ==
    \A r \in Runs :
       /\ thread[r].sent <= 2
       /\ (thread[r].pc = "inflight" /\ thread[r].sent > 1) => ~thread[r].result.ok

\* C3, the case: the second request of a chunk is in flight
C3_Witness == \E r \in Runs : thread[r].pc = "inflight" /\ thread[r].sent = 2

\* C4: in the SRT and in the JSON path a unit whose returned translation is
\* blank after trimming keeps its own source text, and the output file
\* carries the merged texts.
C4_BlankFallsBackToSource ==
    [][\A r \in Runs :
         LET t == thread[r]
             f == t.paths[t.idx]
             n == Len(t.translated)
         IN
         /\ (t.pc = "merge" /\ t.result.ok /\ thread'[r].pc \in {"c_check", "f_save"}) =>
               \A j \in 1..Len(ChunksOf(f)[t.ci]) :
                  Strip(t.result.texts[j]) = Blank =>
                     ListText(f, thread'[r].translated, n + j)
                        = ChunkSource(f, ChunksOf(f)[t.ci], j)
         /\ (t.pc = "f_save" /\ outputs'[r] # outputs[r]) =>
               LET body == outputs'[r][<<f, "translated">>].body IN
               /\ Len(body) = n
               /\ \A i \in 1..n : BodyText(f, body, i) = ListText(f, t.translated, i)]_vars

\* C5: once the cancel flag of a run is set, its worker sends no request
\* (a request counts as sent from the cancel check of lines 673 / 715 that
\* precedes it), starts no chunk and starts no file: the whole run halts, not only
\* the current file.
C5_NothingNewAfterCancel ==
    [][\A r \in Runs :
         cancelFlag[r] =>
            /\ ~(thread[r].pc = "a_check" /\ thread'[r].pc = "inflight")
            /\ ~(thread[r].pc = "c_check" /\ thread'[r].pc = "a_check")
            /\ ~(thread[r].pc = "q_loop" /\ thread'[r].pc = "q_parse")]_vars

\* C5, the case: canceled inside a file, the run has ended Canceled
C5_Witness ==
    \E r \in Runs : cancelPos[r].file # "" /\ outcome[r] = "Canceled"

\* C6: a run canceled while one of its files (the last one included) was
\* being translated ends Canceled and never reports Completed.
C6_CanceledNeverCompleted ==
    \A r \in Runs :
       cancelPos[r].file # "" =>
          /\ outcome[r] # "Completed"
          /\ thread[r].pc \in {"q_finally", "done"} => outcome[r] = "Canceled"

\* C7: an error raised on one file fails only that file: a run not canceled
\* ends Completed.
C7_FileErrorIsolated ==
    \A r \in Runs :
       (fileErr[r] /\ ~cancelFlag[r] /\ thread[r].pc \in {"q_finally", "done"})
          => outcome[r] = "Completed"

\* C8: translate_batch always returns a pair: after a round trip the caller
\* is at the next attempt or at the merge, never in an except.
C8_TranslateBatchReturnsPair ==
    [][\A r \in Runs :
         (thread[r].pc = "inflight" /\ thread'[r].pc # "inflight")
            => thread'[r].pc \in {"a_check", "merge"}]_vars

\* C9: at most one worker thread is executing translate_queue.
C9_OneWorker ==
    Cardinality({r \in Runs : thread[r].pc \notin {"idle", "done"}}) <= 1

\* C10: every run started reaches final_reset, exactly once, and final_reset
\* leaves the button reading TRANSLATE and one more final status line logged.
C10_EveryRunFinallyReset ==
    /\ \A r \in Runs : (thread[r].pc = "start") ~> (finalResets[r] = 1)
    /\ [][\A r \in Runs :
            /\ finalResets'[r] <= 1
            /\ finalResets'[r] # finalResets[r] =>
                  /\ btnText' = "TRANSLATE"
                  /\ finishedLines' = finishedLines + 1]_vars

\* C10, the case: a run has had its final_reset
C10_Witness ==
    \E r \in Runs : finalResets[r] = 1 /\ btnText = "TRANSLATE" /\ finishedLines >= 1

\* C11: while the file list is empty or the stored key is missing or lacks a
\* recognized prefix no run is started: no thread is created and nothing of
\* the run state changes, whatever keys were saved, files selected, runs
\* started and canceled before.
C11_NoStartUnlessReady ==
    [][(file_paths = <<>> \/ ~HasPrefix(api_key)) =>
          /\ runsStarted' = runsStarted
          /\ thread' = thread
          /\ cancel_event' = cancel_event
          /\ btnText' = btnText
          /\ UNCHANGED <<total_subs, translated_count, progress, uiQueue>>]_vars

\* C11, the case: files are selected, no key is stored, the button is
\* disabled and no run has started
C11_Witness ==
    /\ file_paths # <<>>
    /\ api_key = ""
    /\ btnState = "disabled"
    /\ runsStarted = 0

\* C12: while a worker is inside one file translated_count never decreases,
\* and it is 0 when the worker starts on a file.
C12_CountMonotoneInFile ==
    [][\A r \in Runs :
         /\ (thread[r].pc \in InFile /\ thread'[r].pc \in InFile
                /\ thread'[r].idx = thread[r].idx)
               => translated_count' >= translated_count
         /\ (thread[r].pc = "q_zero" /\ thread'[r].pc \in InFile)
               => translated_count' = 0]_vars

\* C13: the value of the progress bar never decreases while a file is
\* translated, however the smooth_progress callbacks of successive chunks
\* interleave.
C13_BarMonotone == [][bar' >= bar]_vars

\* C14: for a file that parses to zero units the worker sends no request,
\* updates no progress and writes no output file, and goes on to the next
\* file of the list.
C14_ZeroUnitsSkipped ==
    [][\A r \in Runs :
         LET t == thread[r]
             f == t.paths[t.idx]
         IN
         (t.pc = "q_zero" /\ NumUnits(f) = 0 /\ thread'[r] # t) =>
            /\ thread'[r].pc = "q_loop"
            /\ thread'[r].idx = t.idx + 1
            /\ thread'[r].sent = 0
            /\ progress' = progress
            /\ outputs'[r] = outputs[r]]_vars

\* C15: an output file, full or partial, holds exactly the units processed
\* (for a full file all units of the source), in the original order, each
\* under its own number and timestamp or its own key, and each with its
\* translation or its source text, never a blank.
C15_OutputUnits ==
    \A r \in Runs : \A p \in OutPaths :
       LET f == p[1]
           body == outputs[r][p].body
       IN
       outputs[r][p].exists =>
          /\ p[2] = "translated" => Len(body) = NumUnits(f)
          /\ Len(body) <= NumUnits(f)
          /\ \A i \in 1..Len(body) :
                /\ IF Ext(f) = ".srt"
                   THEN body[i].num = ParsedSrt(f)[i].num
                        /\ body[i].time = ParsedSrt(f)[i].time
                   ELSE body[i].key = parse_json_text(f).keys[i]
                /\ BodyText(f, body, i) \in {SrcText(f, i), Tr(SrcText(f, i))}

\* the units parse_srt is to return for well-formed blocks
UnitsOfBlocks(blocks) ==
    [i \in 1..Len(blocks) |->
        [num |-> int(StripLine(blocks[i].index)), time |-> TimeLine,
         text |-> blocks[i].text]]

\* C16: on a successful response translate_batch returns len(batch) strings,
\* the i-th being the trimmed i-th segment of the content, or "" when the
\* content has fewer than i segments: a blank segment shifts nothing.
C16_SegmentsAligned ==
    (call.fn = "translate_batch" /\ call.done) =>
       /\ Len(call.out) = call.in.expected
       /\ \A i \in 1..call.in.expected :
             call.out[i] = IF i <= Len(call.in.segs) THEN Strip(call.in.segs[i])
                           ELSE Blank

RECURSIVE Flatten(_)
Flatten(chunks) ==
    IF chunks = <<>> THEN <<>> ELSE Head(chunks) \o Flatten(Tail(chunks))

RECURSIVE SumLen(_)
SumLen(chunks) ==
    IF chunks = <<>> THEN 0 ELSE Len(Head(chunks)) + SumLen(Tail(chunks))

\* C17: chunking a list of N units with batch size B >= 1 gives consecutive
\* chunks whose lengths sum to N, each of 1 to B units, only the last
\* possibly shorter than B, and their concatenation is the list.
C17_ChunksPartition ==
    (call.fn = "chunk_subtitles" /\ call.done) =>
       LET chunks == call.out
           n == call.in.n
           size == call.in.size
       IN
       /\ SumLen(chunks) = n
       /\ \A c \in 1..Len(chunks) : Len(chunks[c]) >= 1 /\ Len(chunks[c]) <= size
       /\ \A c \in 1..(Len(chunks) - 1) : Len(chunks[c]) = size
       /\ Flatten(chunks) = [i \in 1..n |-> i]

\* C17, the case: a list chunked into several chunks, the last one shorter
C17_Witness ==
    /\ call.fn = "chunk_subtitles"
    /\ call.done
    /\ Len(call.out) = 3
    /\ Len(call.out[3]) < call.in.size

\* C18: parse_srt followed by save_srt with every unit's own source text
\* writes the index, the timestamp and the text of every block of the input,
\* in the order of the input.
C18_SrtRoundTrip ==
    (call.fn = "srt_round_trip" /\ call.done) =>
       LET want == UnitsOfBlocks(call.in.blocks) IN
       /\ Len(call.out) = Len(want)
       /\ \A i \in 1..Len(want) :
             /\ call.out[i].num = want[i].num
             /\ call.out[i].time = want[i].time
             /\ call.out[i].text = want[i].text

\* C19: save_json with the values parse_json_text returned writes the
\* content it read: every matched pair with its own text around the colon,
\* all other text as it was.
C19_JsonNoOpIdentical ==
    (call.fn = "save_json" /\ call.done) => call.out = call.in

\* C20: parse_srt returns a unit for every well-formed block, before and
\* after malformed ones, and none for a block without index line or without
\* timestamp line.
C20_MalformedSkipped ==
    (call.fn = "parse_srt" /\ call.done) =>
       call.out = UnitsOfBlocks(SelectSeq(call.in.blocks, LAMBDA b : b.kind = "ok"))

\* C21: a worker thread never calls a method of a widget: what it has to
\* show is posted to the foreground thread with root.after and runs there.
C21_WorkerNeverTouchesWidget == ~workerTouched

\* C22: while a run is under way the file list its worker goes through does
\* not change, and every request of the run carries the key that was
\* stored when the run was started.
C22_KeyAndFilesFixed ==
    [][\A r \in Runs :
          /\ (thread[r].pc \notin {"idle", "start"} /\ thread'[r].pc # "done")
                => thread'[r].paths = thread[r].paths
          /\ thread'[r].pc = "inflight" => thread'[r].key = startKey'[r]]_vars

\* C23: when the cancel flag is set while an attempt for a chunk is in
\* flight, the worker leaves the file without that chunk: the chunk is not
\* merged (so neither recorded through the fallback nor counted) and the
\* file gets no "translated" output.
C23_InFlightCancelAborts ==
    \A r \in Runs :
       cancelPos[r].inflight > 0 =>
          LET f == cancelPos[r].file
              t == thread[r]
          IN
          /\ (t.pc \in InFile /\ t.paths[t.idx] = f) =>
                /\ t.pc # "merge"
                /\ t.ci = cancelPos[r].done + 1
                /\ Len(t.translated) = UnitsInChunks(f, cancelPos[r].done)
          /\ ~outputs[r][<<f, "translated">>].exists

\* the places, among the pairs matched in a content, where key occurs
Occurrences(content, key) ==
    {i \in 1..Len(JsonMatches(content)) : JsonMatches(content)[i].key = key}

\* the place of item i of a content among the pairs matched
MatchIndex(content, i) ==
    Cardinality({j \in 1..i : content[j].kind = "pair"})

\* C24: save_json writes into every occurrence of a key the translated
\* value of the key's last occurrence, and leaves a key for which no
\* translated value is at hand with its original value.
C24_LastWriteWins ==
    (call.fn = "save_json_translated" /\ call.done) =>
       LET content == call.in.content
           n == call.in.n
       IN
       /\ Len(call.out) = Len(content)
       /\ \A i \in 1..Len(content) :
             content[i].kind = "pair" =>
                LET occ == Occurrences(content, content[i].key)
                    last == CHOOSE j \in occ : \A k \in occ : k <= j
                IN
                /\ call.out[i].kind = "pair"
                /\ call.out[i].key = content[i].key
                /\ last <= n => call.out[i].value = Translated(last)
                /\ (\A j \in occ : j > n) => call.out[i].value = content[i].value

\* C24, the case: a key that occurs twice with different values, a
\* translated value at hand for both, and both occurrences written with the
\* translated value of the second
C24_Witness ==
    /\ call.fn = "save_json_translated"
    /\ call.done
    /\ \E i, j \in 1..Len(call.in.content) :
          /\ i < j
          /\ call.in.content[i].kind = "pair"
          /\ call.in.content[j].kind = "pair"
          /\ call.in.content[i].key = call.in.content[j].key
          /\ call.in.content[i].value # call.in.content[j].value
          /\ MatchIndex(call.in.content, j) <= call.in.n
          /\ call.out[i].value = Translated(MatchIndex(call.in.content, j))
          /\ call.out[j].value = call.out[i].value

\* C25: for a path whose extension is .srt or .json in any case, the path
\* the translation is written to differs from the path of the input.
C25_OutputPathDiffers ==
    (call.fn = "out_path" /\ call.done
       /\ lower(splitext(call.in)) \in {".srt", ".json"}) =>
       call.out # call.in

\* C26: 0 <= translated_count <= total_subs always, so every percentage
\* posted lies in 0..100, and when the full output of a file is saved
\* translated_count equals total_subs.
C26_CountWithinTotal ==
    /\ [](translated_count >= 0 /\ translated_count <= total_subs
            /\ progress >= 0 /\ progress <= 100)
    /\ [][\A r \in Runs : \A f \in Files :
            (~outputs[r][<<f, "translated">>].exists
               /\ outputs'[r][<<f, "translated">>].exists)
              => translated_count = total_subs]_vars

====
